---- MODULE Spec2Model ----
(***************************************************************************)
(* Habit tracker backend (src/main.py, src/schemas.py): the two            *)
(* collections "habit" and "habitentry", the request handlers that read    *)
(* and write them, and the responses they return.                          *)
(***************************************************************************)
EXTENDS Integers, Sequences, FiniteSets, Bags, TLC

(* ------------------------------ bounds --------------------------------- *)
\* Workers serving requests, clock readings after the first, habits created.
NProcs == 2

MaxNow == 2

MaxHabits == 2

(* --------------------------- value domains ------------------------------ *)
\* Python's None, and a field left out of a JSON payload.
None == "None"
Omitted == "<omitted>"

\* str(ObjectId): the text form of the n-th identifier the store assigns.
IdText(n) == <<"id1", "id2", "id3", "id4", "id5">>[n]

\* date.isoformat() of the d-th day of the modelled period.
IsoFormat(d) == <<"2024-01-01", "2024-01-02", "2024-01-03", "2024-01-04", "2024-01-05">>[d + 1]

VARIABLES
    habit,       \* the "habit" collection, in the store's order
    habitentry,  \* the "habitentry" collection, in the store's order
    now,         \* the clock, datetime.utcnow()
    pending,     \* the complete_today calls between find_one and update_one
    last,        \* the last returned call
    body,        \* the body of the last response
    req,         \* the payload of the last create_habit request
    created      \* the identifiers returned so far, each with its payload

vars == <<habit, habitentry, now, pending, last, body, req, created>>

(* ------------------------------ utilities ------------------------------- *)
\* datetime.utcnow().date(): the calendar day of the instant t (two clock
\* readings fall in each day).
DateOf(t) == t \div 2

_today_date == DateOf(now)

Min(S) == CHOOSE x \in S : \A y \in S : x <= y

Abs(n) == IF n < 0 THEN -n ELSE n

RemoveAt(s, i) == [j \in 1..(Len(s) - 1) |-> IF j < i THEN s[j] ELSE s[j + 1]]

Prefix(s, n) == [j \in 1..(IF n < Len(s) THEN n ELSE Len(s)) |-> s[j]]


(* --------------------------- entity schemas ----------------------------- *)
Categories == {"gebet", "quran", "dhikr", "spenden", "wissen", "gesundheit", "sonstiges"}

Frequencies == {"daily", "weekly"}

CreateGoalMin == 1

GoalMin == 1

GoalMax == 1000

\* class HabitCreate: what the request body must satisfy (title required,
\* goal_per_period >= 1, category and frequency any text).
HabitCreateValid(pl) ==
    /\ pl.title # Omitted
    /\ pl.goal_per_period # <<>> => pl.goal_per_period[1] >= CreateGoalMin

\* model_dump with the category default of another vocabulary.
dump_default_other(pl) ==
    [title |-> pl.title,
     description |-> IF pl.description = Omitted THEN None ELSE pl.description,
     category |-> IF pl.category = Omitted THEN "other" ELSE pl.category,
     frequency |-> IF pl.frequency = Omitted THEN "daily" ELSE pl.frequency,
     goal_per_period |-> IF pl.goal_per_period = <<>> THEN 1 ELSE pl.goal_per_period[1],
     color |-> IF pl.color = Omitted THEN None ELSE pl.color]

\* payload.model_dump(): the payload with the defaults of HabitCreate filled in.
HabitCreateDump(pl) ==
    [title |-> pl.title,
     description |-> IF pl.description = Omitted THEN None ELSE pl.description,
     category |-> IF pl.category = Omitted THEN "sonstiges" ELSE pl.category,
     frequency |-> IF pl.frequency = Omitted THEN "daily" ELSE pl.frequency,
     goal_per_period |-> IF pl.goal_per_period = <<>> THEN 1 ELSE pl.goal_per_period[1],
     color |-> IF pl.color = Omitted THEN None ELSE pl.color]

\* class Habit: the validation HabitSchema(**...) runs on the dumped payload.
HabitSchemaValid(d) ==
    /\ d.category \in Categories \cup {None}
    /\ d.frequency \in Frequencies
    /\ d.goal_per_period >= GoalMin
    /\ d.goal_per_period <= GoalMax

\* HabitEntrySchema(habit_id=..., entry_date=..., completed=True).model_dump()
HabitEntryDump(habit_id, today) ==
    [habit_id |-> habit_id, entry_date |-> today, completed |-> TRUE, notes |-> None]


(* -------------------------- persistence adapter ------------------------- *)
\* create_document(kind, instance): the collection with the document added
\* under the next identifier of the store.
create_document(coll, data) ==
    Append(coll, [_id |-> Len(coll) + 1,
                  title |-> data.title,
                  description |-> data.description,
                  category |-> data.category,
                  frequency |-> data.frequency,
                  goal_per_period |-> data.goal_per_period,
                  color |-> data.color])

\* get_documents(kind, {}, None): every record, in the store's order.
get_documents(coll) == coll

(* ------------------- the store calls of the handlers -------------------- *)
Matches(e, habit_id, today) == e.habit_id = habit_id /\ e.entry_date = today

\* The positions of the documents a filter {habit_id, entry_date} matches.
Hits(coll, habit_id, today) == {i \in 1..Len(coll) : Matches(coll[i], habit_id, today)}

\* db["habitentry"].find_one({"habit_id": .., "entry_date": ..}): the first
\* matching document in the store's order, or <<>> for None.
find_one(coll, habit_id, today) ==
    LET hits == Hits(coll, habit_id, today)
    IN  IF hits = {} THEN <<>> ELSE <<coll[Min(hits)]>>

\* update_one as a plain insert: the filter is never matched.
insert_always(coll, habit_id, today, t) ==
    Append(coll, [habit_id |-> habit_id, entry_date |-> today, completed |-> TRUE,
                  notes |-> None, updated_at |-> t, created_at |-> t])

\* db["habitentry"].update_one(filter, {"$set": .., "$setOnInsert": ..},
\* upsert=True): the first match gets the $set fields; with no match a new
\* document is inserted from the filter, $set and $setOnInsert.
update_one_upsert(coll, habit_id, today, t) ==
    LET hits == Hits(coll, habit_id, today)
        set == HabitEntryDump(habit_id, today)
    IN  IF hits = {}
        THEN Append(coll, [habit_id |-> set.habit_id,
                           entry_date |-> set.entry_date,
                           completed |-> set.completed,
                           notes |-> set.notes,
                           updated_at |-> t,
                           created_at |-> t])
        ELSE [coll EXCEPT ![Min(hits)] =
                 [habit_id |-> set.habit_id,
                  entry_date |-> set.entry_date,
                  completed |-> set.completed,
                  notes |-> set.notes,
                  updated_at |-> t,
                  created_at |-> @.created_at]]

\* delete_one as a flag update: the match is kept with completed = False.
delete_as_flag(coll, habit_id, today) ==
    LET hits == Hits(coll, habit_id, today)
    IN  IF hits = {}
        THEN [coll |-> coll, deleted_count |-> 0]
        ELSE [coll |-> [coll EXCEPT ![Min(hits)].completed = FALSE], deleted_count |-> 1]

\* delete_one with the date left out of the filter.
delete_any_date(coll, habit_id, today) ==
    LET hits == {i \in 1..Len(coll) : coll[i].habit_id = habit_id}
    IN  IF hits = {}
        THEN [coll |-> coll, deleted_count |-> 0]
        ELSE [coll |-> RemoveAt(coll, Min(hits)), deleted_count |-> 1]

\* db["habitentry"].delete_one(filter): the collection without the first
\* match, and deleted_count.
delete_one(coll, habit_id, today) ==
    LET hits == Hits(coll, habit_id, today)
    IN  IF hits = {}
        THEN [coll |-> coll, deleted_count |-> 0]
        ELSE [coll |-> RemoveAt(coll, Min(hits)), deleted_count |-> 1]

\* cursor.sort("entry_date", -1): descending by entry_date (a stable
\* insertion sort of the matching documents).
RECURSIVE SortDesc(_)
SortDesc(s) ==
    IF Len(s) <= 1 THEN s
    ELSE LET rest == SortDesc(Tail(s))
             x == Head(s)
             k == Cardinality({i \in 1..Len(rest) : rest[i].entry_date > x.entry_date})
         IN  [j \in 1..Len(s) |->
                 IF j <= k THEN rest[j] ELSE IF j = k + 1 THEN x ELSE rest[j - 1]]

\* cursor.limit(n): 0 means no limit, a negative n limits to abs(n).
CursorLimit(s, limit) ==
    IF limit = 0 THEN s ELSE Prefix(s, Abs(limit))

RECURSIVE Filter(_, _)
Filter(s, habit_id) ==
    IF s = <<>> THEN <<>>
    ELSE IF Head(s).habit_id = habit_id
         THEN <<Head(s)>> \o Filter(Tail(s), habit_id)
         ELSE Filter(Tail(s), habit_id)

\* db["habitentry"].find({"habit_id": ..}).sort("entry_date", -1).limit(limit)
find_sort_limit(coll, habit_id, limit) ==
    CursorLimit(SortDesc(Filter(coll, habit_id)), limit)

(* ------------------------------ serializers ----------------------------- *)
\* _serialize_doc(h): _id becomes the text "id", the other fields are kept.
_serialize_doc(h) ==
    [id |-> IdText(h._id),
     title |-> h.title,
     description |-> h.description,
     category |-> h.category,
     frequency |-> h.frequency,
     goal_per_period |-> h.goal_per_period,
     color |-> h.color]


(* ------------------------- requests and responses ----------------------- *)
Payload(title, category, frequency, goal, description, color) ==
    [title |-> title, description |-> description, category |-> category,
     frequency |-> frequency, goal_per_period |-> goal, color |-> color]

NoPayload == Payload(Omitted, Omitted, Omitted, <<>>, Omitted, Omitted)

DefaultPayload == Payload("Fajr", Omitted, Omitted, <<>>, Omitted, Omitted)

\* Creation payloads at the boundaries of the two schemas.
AllPayloads ==
    { DefaultPayload,
      Payload(Omitted, Omitted, Omitted, <<>>, Omitted, Omitted),
      Payload("Fajr", Omitted, Omitted, <<0>>, Omitted, Omitted),
      Payload("Fajr", Omitted, Omitted, <<1>>, Omitted, Omitted),
      Payload("Fajr", Omitted, Omitted, <<1000>>, Omitted, Omitted),
      Payload("Fajr", Omitted, Omitted, <<1001>>, Omitted, Omitted),
      Payload("Fajr", "prayer", Omitted, <<1>>, Omitted, Omitted),
      Payload("Fajr", "gebet", Omitted, <<>>, Omitted, Omitted),
      Payload("Fajr", None, Omitted, <<>>, Omitted, Omitted),
      Payload("Fajr", Omitted, "weekly", <<>>, Omitted, Omitted),
      Payload("Fajr", Omitted, "monthly", <<>>, Omitted, Omitted),
      Payload("Quran lesen", "quran", "daily", <<5>>, "Eine Seite", "#16a34a") }

\* The habit_id path parameters tried: the identifier returned for the
\* first habit, once it is returned, and a text that names no habit. A
\* client names a habit by an identifier it was given.
HabitIds ==
    {h \in {IdText(1), "orphan"} : h = "orphan" \/ h \in {c.id : c \in created}}

\* limit: int = 30
DefaultLimit == 30

\* The limit query parameters tried.
Limits == {-1, 0, 1, 2, DefaultLimit}

\* The call returned just before, as far as a later call refers to it.
NoPred == [op |-> "none", hid |-> "", date |-> 0, status |-> "", predop |-> "none"]

Writes == {"complete_today", "uncomplete_today"}

\* Whether a call op(hid) reading date refers to the call returned before it:
\* a write to the entry of the same habit_id and date, a listing after a
\* creation or after a write of the same date, an entry history after an
\* uncomplete_today of the same habit_id.
Follows(op, hid, date) ==
    \/ op \in Writes /\ last.op \in Writes /\ last.hid = hid /\ last.date = date
    \/ op = "list_habits" /\ last.op \in Writes /\ last.date = date
    \/ op = "list_habits" /\ last.op = "create_habit"
    \/ op = "get_entries" /\ last.op = "uncomplete_today" /\ last.hid = hid

\* The last returned call: the operation, its habit_id and limit parameters,
\* the date it read (0 when it reads none), the status it returned, and the
\* call returned just before it (pred) when this call follows it.
Call(op, hid, date, status, limit) ==
    [op |-> op, hid |-> hid, date |-> date, status |-> status, limit |-> limit,
     pred |-> IF Follows(op, hid, date)
              THEN [op |-> last.op, hid |-> last.hid, date |-> last.date,
                    status |-> last.status, predop |-> last.pred.op]
              ELSE NoPred]

NoCall ==
    [op |-> "none", hid |-> "", date |-> 0, status |-> "", limit |-> 0, pred |-> NoPred]

\* A worker is free to take a request.
Idle == BagCardinality(pending) < NProcs

Init ==
    /\ habit = <<>>
    /\ habitentry = <<>>
    /\ now = 0
    /\ pending = EmptyBag
    /\ last = NoCall
    /\ body = <<>>
    /\ req = NoPayload
    /\ created = {}

(* ------------------------------- handlers ------------------------------- *)
\* The clock advances.
Tick ==
    /\ now < MaxNow
    /\ now' = now + 1
    /\ UNCHANGED <<habit, habitentry, pending, last, body, req, created>>

\* GET /test
test_database ==
    /\ Idle
    /\ body' = SelectSeq(<<"habit", "habitentry">>,
                         LAMBDA c : IF c = "habit" THEN habit # <<>> ELSE habitentry # <<>>)
    /\ last' = Call("test_database", "", 0, "200", 0)
    /\ UNCHANGED <<habit, habitentry, now, pending, req, created>>

\* POST /api/habits
create_habit(payload) ==
    /\ Idle
    /\ req' = payload
    /\ body' = <<>>
    /\ IF ~HabitCreateValid(payload)
       THEN /\ last' = Call("create_habit", "", 0, "422", 0)
            /\ UNCHANGED <<habit, created>>
       ELSE IF ~HabitSchemaValid(HabitCreateDump(payload))
       THEN /\ last' = Call("create_habit", "", 0, "500", 0)
            /\ UNCHANGED <<habit, created>>
       ELSE /\ Len(habit) < MaxHabits
            /\ habit' = create_document(habit, HabitCreateDump(payload))
            /\ LET new_id == IdText(habit'[Len(habit')]._id)
               IN  /\ last' = Call("create_habit", new_id, 0, "200", 0)
                   /\ created' = created \cup {[id |-> new_id, payload |-> payload]}
    /\ UNCHANGED <<habitentry, now, pending>>

\* list_habits looking entries up by the raw _id, which no habit_id equals.
list_habits_raw_id ==
    /\ Idle
    /\ body' = [i \in 1..Len(habit) |->
                    [data |-> _serialize_doc(habit[i]), today_completed |-> FALSE]]
    /\ last' = Call("list_habits", "", _today_date, "200", 0)
    /\ UNCHANGED <<habit, habitentry, now, pending, req, created>>

\* GET /api/habits
list_habits ==
    /\ Idle
    /\ LET habits == get_documents(habit)
           today == _today_date
       IN  /\ body' = [i \in 1..Len(habits) |->
                        LET hid == IdText(habits[i]._id)
                            entry == find_one(habitentry, hid, today)
                        IN  [data |-> _serialize_doc(habits[i]),
                             today_completed |-> entry # <<>> /\ entry[1].completed]]
           /\ last' = Call("list_habits", "", today, "200", 0)
    /\ UNCHANGED <<habit, habitentry, now, pending, req, created>>

\* complete_today without the early return: the upsert follows every find_one.
complete_today_no_return(habit_id) ==
    /\ Idle
    /\ pending' = pending (+) SetToBag({[habit_id |-> habit_id, today |-> _today_date]})
    /\ UNCHANGED <<habit, habitentry, now, last, body, req, created>>

\* POST /api/habits/{habit_id}/complete_today, up to the find_one: either
\* the early return, or on to the upsert.
complete_today_find(habit_id) ==
    /\ Idle
    /\ LET today == _today_date
           existing == find_one(habitentry, habit_id, today)
       IN  IF existing # <<>> /\ existing[1].completed
           THEN /\ last' = Call("complete_today", habit_id, today, "already_completed", 0)
                /\ body' = <<>>
                /\ UNCHANGED pending
           ELSE /\ pending' = pending (+) SetToBag({[habit_id |-> habit_id, today |-> today]})
                /\ UNCHANGED <<last, body>>
    /\ UNCHANGED <<habit, habitentry, now, req, created>>

\* complete_today, the update_one(..., upsert=True) and the return.
complete_today_upsert(c) ==
    /\ BagIn(c, pending)
    /\ habitentry' = update_one_upsert(habitentry, c.habit_id, c.today, now)
    /\ last' = Call("complete_today", c.habit_id, c.today, "completed", 0)
    /\ body' = <<>>
    /\ pending' = pending (-) SetToBag({c})
    /\ UNCHANGED <<habit, now, req, created>>

\* uncomplete_today reporting "removed" whatever deleted_count is.
uncomplete_today_removed(habit_id) ==
    /\ Idle
    /\ habitentry' = delete_one(habitentry, habit_id, _today_date).coll
    /\ last' = Call("uncomplete_today", habit_id, _today_date, "removed", 0)
    /\ body' = <<>>
    /\ UNCHANGED <<habit, now, pending, req, created>>

\* DELETE /api/habits/{habit_id}/complete_today
uncomplete_today(habit_id) ==
    /\ Idle
    /\ LET today == _today_date
           res == delete_one(habitentry, habit_id, today)
       IN  /\ habitentry' = res.coll
           /\ last' = Call("uncomplete_today", habit_id, today,
                           IF res.deleted_count # 0 THEN "removed" ELSE "not_found", 0)
    /\ body' = <<>>
    /\ UNCHANGED <<habit, now, pending, req, created>>

\* GET /api/habits/{habit_id}/entries?limit=N
get_entries(habit_id, limit) ==
    /\ Idle
    /\ LET items == find_sort_limit(habitentry, habit_id, limit)
       IN  body' = [i \in 1..Len(items) |->
                       [entry_date |-> IsoFormat(items[i].entry_date),
                        completed |-> items[i].completed]]
    /\ last' = Call("get_entries", habit_id, 0, "200", limit)
    /\ UNCHANGED <<habit, habitentry, now, pending, req, created>>

(* ---------------------------- specifications ---------------------------- *)
\* The handlers that write, served by NProcs workers over one store: calls
\* of complete_today interleave between their find_one and their update_one.
Next ==
    \/ Tick
    \/ create_habit(DefaultPayload)
    \/ \E h \in HabitIds : complete_today_find(h)
    \/ \E c \in BagToSet(pending) : complete_today_upsert(c)
    \/ \E h \in HabitIds : uncomplete_today(h)

Spec == Init /\ [][Next]_vars

\* Every handler, one request at a time: a handler is a coroutine that never
\* awaits, so one worker runs it to its return before it takes the next
\* request. The clock advances at any time.
NextSerial ==
    \/ Tick
    \/ \E c \in BagToSet(pending) : complete_today_upsert(c)
    \/ /\ pending = EmptyBag
       /\ \/ test_database
          \/ create_habit(DefaultPayload)
          \/ list_habits
          \/ \E h \in HabitIds : complete_today_find(h)
          \/ \E h \in HabitIds : uncomplete_today(h)
          \/ \E h \in HabitIds, n \in Limits : get_entries(h, n)

SpecSerial == Init /\ [][NextSerial]_vars

\* The creation endpoint on the payloads at the schemas' boundaries.
NextCreate ==
    \/ \E pl \in AllPayloads : create_habit(pl)
    \/ list_habits

SpecCreate == Init /\ [][NextCreate]_vars


(* -------------------------------- claims -------------------------------- *)
EntriesOf(coll, habit_id, today) ==
    {k \in 1..Len(coll) : coll[k].habit_id = habit_id /\ coll[k].entry_date = today}

Others(coll, habit_id, today) == SelectSeq(coll, LAMBDA e : ~Matches(e, habit_id, today))

\* C1: in every state the workers can reach, whatever the interleaving of
\* the find_one and update_one steps of complete_today with each other and
\* with uncomplete_today, no two documents of "habitentry" have the same
\* habit_id and entry_date.
C1_OneEntryPerPair ==
    \A i, j \in 1..Len(habitentry) :
        i # j => ~Matches(habitentry[i], habitentry[j].habit_id, habitentry[j].entry_date)

\* Two calls for one pair both passed find_one before either wrote: the
\* second update_one met the document of the first, at a later instant.
C1_Witness ==
    \E i \in 1..Len(habitentry) : habitentry[i].updated_at > habitentry[i].created_at

\* C2: a complete_today that starts when the last returned call is a
\* complete_today for the same habit_id and the same date returns
\* "already_completed" from its find_one, and leaves "habitentry" (so the
\* entry's created_at and updated_at) as it was.
C2_Idempotent ==
    [][\A h \in HabitIds :
          (/\ last.op = "complete_today"
           /\ last.hid = h
           /\ last.date = _today_date
           /\ complete_today_find(h))
          => (/\ pending' = pending
              /\ last'.op = "complete_today"
              /\ last'.status = "already_completed"
              /\ last'.pred.op = "complete_today"
              /\ habitentry' = habitentry)]_vars

\* The second of two calls in succession returned "already_completed" after
\* the first returned "completed" and stored the entry.
C2_Witness ==
    /\ last.op = "complete_today"
    /\ last.status = "already_completed"
    /\ last.pred.op = "complete_today"
    /\ last.pred.status = "completed"
    /\ EntriesOf(habitentry, last.hid, last.date) # {}

\* C8: uncomplete_today returns "removed" exactly when a document for
\* (habit_id, today) was stored when it ran and "not_found" otherwise, no
\* document for the pair is stored after it, and an uncomplete_today that
\* starts when the last returned call is an uncomplete_today for the same
\* habit_id and date returns "not_found".
C8_Uncomplete ==
    [][\A h \in HabitIds :
          uncomplete_today(h)
          => (/\ last'.status = (IF EntriesOf(habitentry, h, _today_date) # {}
                                 THEN "removed" ELSE "not_found")
              /\ EntriesOf(habitentry', h, _today_date) = {}
              /\ (last.op = "uncomplete_today" /\ last.hid = h /\ last.date = _today_date)
                    => last'.status = "not_found")]_vars

\* An uncomplete_today returned "not_found" right after one for the same pair
\* returned "removed".
C8_Witness ==
    /\ last.op = "uncomplete_today"
    /\ last.status = "not_found"
    /\ last.pred.op = "uncomplete_today"
    /\ last.pred.status = "removed"

C4_RoundTrip ==
    (/\ last.op = "get_entries"
     /\ last.pred.op = "uncomplete_today"
     /\ last.pred.predop = "complete_today")
    => \A i \in 1..Len(body) : body[i].entry_date # IsoFormat(last.pred.date)

\* The round trip ran on a habit that keeps an entry of another date: the
\* listing shows that one only.
C4_Witness ==
    /\ last.op = "get_entries"
    /\ last.pred.op = "uncomplete_today"
    /\ last.pred.status = "removed"
    /\ last.pred.predop = "complete_today"
    /\ Len(body) >= 1

DayOfIso(text) == CHOOSE d \in 0..4 : IsoFormat(d) = text

MinOf(a, b) == IF a < b THEN a ELSE b

Returned(n, limit) == MinOf(n, IF limit < 0 THEN 0 ELSE limit)

\* C7: the body of get_entries(habit_id, limit) holds exactly min(n, limit)
\* entries (none for a limit below 0), n being the number of documents
\* stored for habit_id, never more than limit, in strictly descending order
\* of entry_date, and they are the most recent ones; for every limit, 0 and
\* negative ones included.
C7_LimitRespected ==
    last.op = "get_entries" =>
        LET mine == {k \in 1..Len(habitentry) : habitentry[k].habit_id = last.hid}
        IN  /\ Len(body) = Returned(Cardinality(mine), last.limit)
            /\ \A i \in 1..Len(body) :
                  \E k \in mine : IsoFormat(habitentry[k].entry_date) = body[i].entry_date
            /\ \A i, j \in 1..Len(body) :
                  i < j => DayOfIso(body[i].entry_date) > DayOfIso(body[j].entry_date)
            /\ \A k \in mine :
                  (\A i \in 1..Len(body) : body[i].entry_date # IsoFormat(habitentry[k].entry_date))
                  => \A i \in 1..Len(body) :
                        DayOfIso(body[i].entry_date) > habitentry[k].entry_date

\* C10: a step changes "habit" only by create_habit adding one document after
\* the ones stored, which stay as they are, and then leaves "habitentry" as
\* it is; a step changes "habitentry" only by complete_today or
\* uncomplete_today, which then leave "habit" and every document of another
\* habit_id or another date as they are and leave at most one document for
\* their own (habit_id, date); list_habits, get_entries and test_database
\* change neither collection.
C10_Frame ==
    [][/\ Len(habit') \in {Len(habit), Len(habit) + 1}
       /\ \A i \in 1..Len(habit) : habit'[i] = habit[i]
       /\ habit' # habit => (last'.op = "create_habit" /\ habitentry' = habitentry)
       /\ habitentry' # habitentry =>
             /\ last'.op \in Writes
             /\ habit' = habit
             /\ Others(habitentry', last'.hid, last'.date)
                   = Others(habitentry, last'.hid, last'.date)
             /\ Cardinality(EntriesOf(habitentry', last'.hid, last'.date)) <= 1]_vars

\* uncomplete_today removed the entry of a text that names no habit while a
\* habit and an entry of another pair were stored.
C10_Witness ==
    /\ last.op = "uncomplete_today"
    /\ last.status = "removed"
    /\ last.hid = "orphan"
    /\ Len(habit) >= 1
    /\ Len(habitentry) >= 1

\* C5: create_habit rejects goal_per_period 0 and 1001 with the client error
\* of request validation and leaves "habit" as it is, and accepts 1 and 1000
\* (the other fields valid), storing one more habit.
C5_GoalBoundary ==
    [][\A pl \in AllPayloads :
          (create_habit(pl) /\ pl.title # Omitted
             /\ pl.category = Omitted /\ pl.frequency = Omitted)
          => /\ pl.goal_per_period \in {<<0>>, <<1001>>}
                  => (last'.status = "422" /\ habit' = habit)
             /\ pl.goal_per_period \in {<<1>>, <<1000>>}
                  => (last'.status = "200" /\ Len(habit') = Len(habit) + 1)]_vars

\* The fields a listed habit must show for a payload, with the defaults of
\* omitted fields.
Expected(pl, category) ==
    [title |-> pl.title,
     description |-> IF pl.description = Omitted THEN None ELSE pl.description,
     category |-> IF pl.category = Omitted THEN category ELSE pl.category,
     frequency |-> IF pl.frequency = Omitted THEN "daily" ELSE pl.frequency,
     goal_per_period |-> IF pl.goal_per_period = <<>> THEN 1 ELSE pl.goal_per_period[1],
     color |-> IF pl.color = Omitted THEN None ELSE pl.color]

Fields(item) ==
    [title |-> item.title, description |-> item.description, category |-> item.category,
     frequency |-> item.frequency, goal_per_period |-> item.goal_per_period,
     color |-> item.color]

ValidPayload(pl, categories) ==
    /\ pl.title \notin {Omitted, ""}
    /\ pl.category \in categories \cup {Omitted}
    /\ pl.frequency \in {"daily", "weekly", Omitted}
    /\ pl.goal_per_period # <<>>
         => (pl.goal_per_period[1] >= 1 /\ pl.goal_per_period[1] <= 1000)

\* create_habit returns an identifier for every payload valid under the
\* given categories, and a listing shows each identifier returned for such
\* a payload exactly once, with the payload's values and the given default.
Listed(categories, default) ==
    /\ (last.op = "create_habit" /\ ValidPayload(req, categories))
          => (last.status = "200" /\ last.hid # "")
    /\ last.op = "list_habits" =>
          \A c \in created :
              ValidPayload(c.payload, categories) =>
                  /\ Cardinality({i \in 1..Len(body) : body[i].data.id = c.id}) = 1
                  /\ \A i \in 1..Len(body) :
                        body[i].data.id = c.id
                        => Fields(body[i].data) = Expected(c.payload, default)

SpecCategories == {"prayer", "quran", "remembrance", "charity", "knowledge", "health", "other"}

C9_AtomicComplete ==
    ~(/\ last.op = "complete_today"
      /\ last.status = "completed"
      /\ last.pred.op = "complete_today"
      /\ last.pred.status = "completed")

====
